---- MODULE Spec2Model ----
(***************************************************************************)
(* InfraGenius tools (src/tools/infra.py, src/tools/messaging.py).         *)
(*                                                                         *)
(* The module-level state is the sandbox registry _sandboxes (a Python     *)
(* dict, which iterates in insertion order and keeps a key's position when *)
(* the key is assigned again) and the two messaging globals.  Every tool   *)
(* call is one action of Spec.  The sandbox SDK, the HTTP client, the      *)
(* clock, the environment and the import system are external: what they    *)
(* answer is an input of the call, drawn from a small set.                 *)
(*                                                                         *)
(* Each call leaves behind what a stub would observe: lastOp/lastArgs (the *)
(* call), ret (how the call ended) and calls (the remote invocations it    *)
(* made, in order, each with the answer it got).                           *)
(*                                                                         *)
(* SpecConc runs deploy_app as a thread whose three registry accesses      *)
(* (lines 131, 134, 135) are separate steps, next to provision_sandbox.    *)
(***************************************************************************)
EXTENDS Integers, Sequences, FiniteSets, TLC

VARIABLES
    registry,      \* _sandboxes, as the sequence of its items in dict order
    api_key,       \* os.environ.get("E2B_API_KEY"): "" when unset
    agent_client,  \* messaging._agent_client
    source_id,     \* messaging._source_id
    nextId,        \* number of sandboxes the provider has created so far
    provisioned,   \* history: names of the successful provisions, in order
    lastOp,        \* the tool called last
    lastArgs,      \* its arguments
    ret,           \* how it ended: a returned value or an escaped exception
    calls,         \* the remote invocations it made, in order
    d_pc,          \* deploy thread: position in deploy_app
    d_args,        \* deploy thread: sandbox_name and repo_url
    d_sandbox,     \* deploy thread: local variable sandbox (line 134)
    d_base_url,    \* deploy thread: local variable base_url (line 135)
    d_ret,         \* deploy thread: how the call ended
    d_calls        \* deploy thread: the commands it issued

vars == <<registry, api_key, agent_client, source_id, nextId, provisioned,
          lastOp, lastArgs, ret, calls,
          d_pc, d_args, d_sandbox, d_base_url, d_ret, d_calls>>

shared == <<registry, api_key, agent_client, source_id, nextId, provisioned>>
thread == <<d_pc, d_args, d_sandbox, d_base_url, d_ret, d_calls>>

----------------------------------------------------------------------------
(* Bounds of the model *)

MaxSandboxes == 3     \* sandboxes the provider creates in one run
MaxSamples == 3       \* largest samples argument of check_latency

(* Program constants *)

SandboxTimeout == 600
StepTimeout == 120
HttpTimeout == 10
ServerPort == 8000

(* Input domains *)

Names == {"a", "b"}
Repos == {"repo"}
Commands == {"ls"}
Urls == {"http://example"}
Texts == {"hello"}
Clients == {"client"}
Sources == {"src1", "src2"}
Keys == {"", "key"}
Times == {1}
Delays == {10, 25}
Statuses == {200, 404}
Errors == {"timeout"}
SampleCounts == (0 - 1) .. MaxSamples
None == "None"
NoTimeout == "default"

----------------------------------------------------------------------------
(* Results of calls *)

Str(msg, data) == [kind |-> "str", msg |-> msg, data |-> data]
Raise(exc) == [kind |-> "raise", msg |-> exc, data |-> <<>>]
ReturnsNone == [kind |-> "none", msg |-> None, data |-> <<>>]
NoCall == [kind |-> "init", msg |-> None, data |-> <<>>]

(* Answers of the external collaborators *)

Raised(e) == [t |-> "raise", err |-> e]
IsRaise(out) == out.t = "raise"

ImportOutcomes == {[t |-> "ok"]} \cup {Raised("ImportError")}

Handle(id) == [sandbox_id |-> id]
CreateOutcomes(id) == {[t |-> "ok", sandbox |-> Handle(id)]}
                          \cup {Raised(e) : e \in Errors}

CommandResult(out, err, code) ==
    [t |-> "exit", stdout |-> out, stderr |-> err, exit_code |-> code]
CommandOutcomes ==
    {CommandResult(o, e, c) : o \in {"", "out"}, e \in {"", "err"}, c \in {0, 1}}
        \cup {Raised(e) : e \in Errors}
StepOutcomes ==
    {CommandResult("", "", 0), CommandResult("", "err", 1)}
        \cup {Raised(e) : e \in Errors}

HttpOutcomes == {[t |-> "ok", status_code |-> s, elapsed |-> d] :
                     s \in Statuses, d \in Delays}
                    \cup {Raised(e) : e \in Errors}
SampleOutcomes == {[t |-> "ok", status_code |-> 200, elapsed |-> d] : d \in Delays}
                      \cup {Raised(e) : e \in Errors}

----------------------------------------------------------------------------
(* The registry: a dict in insertion order *)

KeysOf(reg) == {reg[i].name : i \in DOMAIN reg}
Has(reg, name) == name \in KeysOf(reg)
IndexOf(reg, name) == CHOOSE i \in DOMAIN reg : reg[i].name = name
Get(reg, name) == reg[IndexOf(reg, name)].info

Item(name, info) == [name |-> name, info |-> info]

\* lines 97 and 131: sandbox_name not in _sandboxes
MissingWhenEmpty(reg, sandbox_name) == reg = <<>>
Missing(reg, sandbox_name) == ~Has(reg, sandbox_name)

\* Slips of the store of line 52: _sandboxes.setdefault(name, info); a list
\* insert at the front; a rebinding of the dict
SetItemKeepFirst(reg, name, info) ==
    IF Has(reg, name) THEN reg ELSE Append(reg, Item(name, info))
SetItemFront(reg, name, info) ==
    IF Has(reg, name)
    THEN [reg EXCEPT ![IndexOf(reg, name)] = Item(name, info)]
    ELSE <<Item(name, info)>> \o reg
SetItemReset(reg, name, info) == <<Item(name, info)>>

\* _sandboxes[name] = info
SetItem(reg, name, info) ==
    IF Has(reg, name)
    THEN [reg EXCEPT ![IndexOf(reg, name)] = Item(name, info)]
    ELSE Append(reg, Item(name, info))

\* f"https://8000-{sandbox_id}.e2b.app"
BaseUrl(sandbox_id) ==
    [scheme |-> "https", port |-> ServerPort, id |-> sandbox_id, domain |-> "e2b.app"]

Info(sandbox, now) ==
    [sandbox |-> sandbox,
     sandbox_id |-> sandbox.sandbox_id,
     base_url |-> BaseUrl(sandbox.sandbox_id),
     created_at |-> now]

----------------------------------------------------------------------------
(* provision_sandbox *)

CreateCall(out) == [api |-> "Sandbox.create", timeout |-> SandboxTimeout, out |-> out]

\* Slip: the entry is stored before the sandbox exists
ProvisionStoreEarly(reg, name, created, now) ==
    IF IsRaise(created) THEN SetItem(reg, name, Info(Handle(0), now))
    ELSE SetItem(reg, name, Info(created.sandbox, now))

\* lines 43-62: the registry after the try block
ProvisionStore(reg, name, created, now) ==
    IF IsRaise(created) THEN reg
    ELSE SetItem(reg, name, Info(created.sandbox, now))

\* lines 37-62: what the call returns and which remote calls it makes
ProvisionRun(name, imported, key, created) ==
    IF IsRaise(imported) THEN [ret |-> Raise(imported.err), calls |-> <<>>]
    ELSE IF key = "" THEN [ret |-> Str("E2B_API_KEY not set", <<>>), calls |-> <<>>]
    ELSE IF IsRaise(created)
    THEN [ret |-> Str("Failed to provision sandbox", [err |-> created.err]),
          calls |-> <<CreateCall(created)>>]
    ELSE [ret |-> Str("Sandbox provisioned",
                      [name |-> name,
                       sandbox_id |-> created.sandbox.sandbox_id,
                       base_url |-> BaseUrl(created.sandbox.sandbox_id)]),
          calls |-> <<CreateCall(created)>>]

Provisioned(r) == r.kind = "str" /\ r.msg = "Sandbox provisioned"

provision_sandbox ==
    /\ nextId < MaxSandboxes
    /\ \E name \in Names, imported \in ImportOutcomes,
          created \in CreateOutcomes(nextId + 1), now \in Times :
        LET run == ProvisionRun(name, imported, api_key, created)
            inTry == ~IsRaise(imported) /\ api_key # ""
        IN /\ ret' = run.ret
           /\ calls' = run.calls
           /\ lastOp' = "provision_sandbox"
           /\ lastArgs' = <<name>>
           /\ registry' = IF inTry THEN ProvisionStore(registry, name, created, now)
                          ELSE registry
           /\ nextId' = IF inTry /\ ~IsRaise(created) THEN nextId + 1 ELSE nextId
           /\ provisioned' = IF Provisioned(run.ret) THEN Append(provisioned, name)
                             ELSE provisioned
    /\ UNCHANGED <<api_key, agent_client, source_id>>
    /\ UNCHANGED thread

\* the host changes the process environment
set_environ ==
    /\ \E key \in Keys :
        /\ key # api_key
        /\ api_key' = key
        /\ lastArgs' = <<key>>
    /\ lastOp' = "os.environ"
    /\ ret' = NoCall
    /\ calls' = <<>>
    /\ UNCHANGED <<registry, agent_client, source_id, nextId, provisioned>>
    /\ UNCHANGED thread

----------------------------------------------------------------------------
(* list_sandboxes *)

\* lines 76-82: one block per item, in dict order
ListEntries(reg) ==
    [i \in DOMAIN reg |->
        [name |-> reg[i].name,
         sandbox_id |-> reg[i].info.sandbox_id,
         base_url |-> reg[i].info.base_url]]

ListRun(reg) ==
    IF reg = <<>> THEN Str("No active sandboxes", <<>>)
    ELSE Str("Active Sandboxes", ListEntries(reg))

list_sandboxes ==
    /\ ret' = ListRun(registry)
    /\ calls' = <<>>
    /\ lastOp' = "list_sandboxes"
    /\ lastArgs' = <<>>
    /\ UNCHANGED shared
    /\ UNCHANGED thread

----------------------------------------------------------------------------
(* run_command *)

CommandCall(sandbox, command, timeout, out) ==
    [api |-> "commands.run", sandbox |-> sandbox, command |-> command,
     timeout |-> timeout, out |-> out]

\* lines 106-111: the report, part by part
CommandReport(result) ==
    (IF result.stdout # "" THEN <<[stdout |-> result.stdout]>> ELSE <<>>)
        \o (IF result.stderr # "" THEN <<[stderr |-> result.stderr]>> ELSE <<>>)
        \o <<[exit_code |-> result.exit_code]>>

\* lines 97-116
RunCommand(reg, sandbox_name, command, out) ==
    IF Missing(reg, sandbox_name)
    THEN [ret |-> Str("Sandbox not found", [name |-> sandbox_name]), calls |-> <<>>]
    ELSE IF ~Has(reg, sandbox_name)
    THEN [ret |-> Raise("KeyError"), calls |-> <<>>]   \* line 100 is outside the try
    ELSE LET sandbox == Get(reg, sandbox_name).sandbox
             call == CommandCall(sandbox, command, NoTimeout, out)
         IN IF IsRaise(out)
            THEN [ret |-> Str("Command failed", [err |-> out.err]), calls |-> <<call>>]
            ELSE [ret |-> Str(IF out.exit_code = 0 THEN "ok" ELSE "warning",
                              CommandReport(out)),
                  calls |-> <<call>>]

run_command ==
    /\ \E sandbox_name \in Names, command \in Commands, out \in CommandOutcomes :
        LET run == RunCommand(registry, sandbox_name, command, out)
        IN /\ ret' = run.ret
           /\ calls' = run.calls
           /\ lastOp' = "run_command"
           /\ lastArgs' = <<sandbox_name, command>>
    /\ UNCHANGED shared
    /\ UNCHANGED thread

----------------------------------------------------------------------------
(* deploy_app *)

CloneCmd(repo_url) == <<"git clone", repo_url, "/home/user/app">>
InstallCmd == <<"cd /home/user/app && npm install">>
BuildCmd == <<"cd /home/user/app && npm run build">>
ServeCmd == <<"cd /home/user/app/dist && nohup python3 -m http.server", ServerPort>>
ProbeCmd == <<"ps aux | grep 'http.server' | grep -v grep">>

\* Slip: only a negative exit code stops the pipeline
StepFailedNegative(result) == result.exit_code < 0

\* lines 143, 150, 157: a step stops the pipeline
StepFailed(result) == result.exit_code # 0

\* Slip: the launch's own exit code is checked too
ServerDownStrict(launch, probe) == launch.exit_code # 0 \/ probe.exit_code # 0

\* lines 163-170: the launch's own result is dropped, the probe decides
ServerDown(launch, probe) == probe.exit_code # 0

\* lines 137-176, with the answers outs[1..5] of the five commands
Pipeline(sandbox, base_url, repo_url, outs) ==
    LET c1 == CommandCall(sandbox, CloneCmd(repo_url), NoTimeout, outs[1])
        c2 == CommandCall(sandbox, InstallCmd, StepTimeout, outs[2])
        c3 == CommandCall(sandbox, BuildCmd, StepTimeout, outs[3])
        c4 == CommandCall(sandbox, ServeCmd, NoTimeout, outs[4])
        c5 == CommandCall(sandbox, ProbeCmd, NoTimeout, outs[5])
        Caught(i, cs) == [ret |-> Str("Deployment failed", [err |-> outs[i].err]),
                          calls |-> cs]
        Stopped(step, i, cs) == [ret |-> Str(step, [stderr |-> outs[i].stderr]),
                                 calls |-> cs]
    IN IF IsRaise(outs[1]) THEN Caught(1, <<c1>>)
       ELSE IF StepFailed(outs[1]) THEN Stopped("Clone failed", 1, <<c1>>)
       ELSE IF IsRaise(outs[2]) THEN Caught(2, <<c1, c2>>)
       ELSE IF StepFailed(outs[2]) THEN Stopped("Install failed", 2, <<c1, c2>>)
       ELSE IF IsRaise(outs[3]) THEN Caught(3, <<c1, c2, c3>>)
       ELSE IF StepFailed(outs[3]) THEN Stopped("Build failed", 3, <<c1, c2, c3>>)
       ELSE IF IsRaise(outs[4]) THEN Caught(4, <<c1, c2, c3, c4>>)
       ELSE IF IsRaise(outs[5]) THEN Caught(5, <<c1, c2, c3, c4, c5>>)
       ELSE IF ServerDown(outs[4], outs[5])
       THEN [ret |-> Str("Server failed to start", <<>>),
             calls |-> <<c1, c2, c3, c4, c5>>]
       ELSE [ret |-> Str("Deployment Complete",
                         [steps |-> <<"Cloned", "Installed", "Built", "Server running">>,
                          base_url |-> base_url]),
             calls |-> <<c1, c2, c3, c4, c5>>]

\* The answers a sandbox can give to one run of the pipeline: one for each
\* command issued; a command that is not issued has no answer (written Idle)
Idle == CommandResult("", "", 0)
PipelineAnswers ==
    {outs \in [1 .. 5 -> StepOutcomes] :
        \A i \in 1 .. 5 :
            i > Len(Pipeline(None, None, "repo", outs).calls) => outs[i] = Idle}

\* lines 131-176
DeployApp(reg, sandbox_name, repo_url, outs) ==
    IF Missing(reg, sandbox_name)
    THEN [ret |-> Str("Sandbox not found. Provision one first", [name |-> sandbox_name]),
          calls |-> <<>>]
    ELSE IF ~Has(reg, sandbox_name)
    THEN [ret |-> Raise("KeyError"), calls |-> <<>>]   \* line 134 is outside the try
    ELSE Pipeline(Get(reg, sandbox_name).sandbox, Get(reg, sandbox_name).base_url,
                  repo_url, outs)

deploy_app ==
    /\ \E sandbox_name \in Names, repo_url \in Repos, outs \in PipelineAnswers :
        LET run == DeployApp(registry, sandbox_name, repo_url, outs)
        IN /\ ret' = run.ret
           /\ calls' = run.calls
           /\ lastOp' = "deploy_app"
           /\ lastArgs' = <<sandbox_name, repo_url>>
    /\ UNCHANGED shared
    /\ UNCHANGED thread

----------------------------------------------------------------------------
(* verify_url and check_latency *)

HttpCall(url, redirects, out) ==
    [api |-> "requests.get", url |-> url, timeout |-> HttpTimeout,
     allow_redirects |-> redirects, out |-> out]

\* lines 190-204
VerifyUrl(url, imported, out) ==
    IF IsRaise(imported) THEN [ret |-> Raise(imported.err), calls |-> <<>>]
    ELSE LET call == HttpCall(url, TRUE, out)
         IN IF IsRaise(out)
            THEN [ret |-> Str("Failed", [err |-> out.err]), calls |-> <<call>>]
            ELSE [ret |-> Str(IF out.status_code = 200 THEN "URL is LIVE" ELSE "HTTP",
                              [url |-> url, status_code |-> out.status_code,
                               elapsed |-> out.elapsed]),
                  calls |-> <<call>>]

verify_url ==
    /\ \E url \in Urls, imported \in ImportOutcomes, out \in HttpOutcomes :
        LET run == VerifyUrl(url, imported, out)
        IN /\ ret' = run.ret
           /\ calls' = run.calls
           /\ lastOp' = "verify_url"
           /\ lastArgs' = <<url>>
    /\ UNCHANGED shared
    /\ UNCHANGED thread

\* range(samples): no iteration for a count of zero or less
RangeLen(samples) == IF samples > 0 THEN samples ELSE 0

RECURSIVE Sum(_)
Sum(xs) == IF xs = <<>> THEN 0 ELSE Head(xs) + Sum(Tail(xs))
Min(xs) == CHOOSE x \in {xs[i] : i \in DOMAIN xs} : \A i \in DOMAIN xs : x <= xs[i]
Max(xs) == CHOOSE x \in {xs[i] : i \in DOMAIN xs} : \A i \in DOMAIN xs : x >= xs[i]

\* f"{num / den:.0f}": to the nearest integer, a tie to the even one
Round0(num, den) ==
    LET q == num \div den
        r == num % den
    IN IF 2 * r < den THEN q
       ELSE IF 2 * r > den THEN q + 1
       ELSE IF q % 2 = 0 THEN q ELSE q + 1

\* lines 229-230
LatencyStats(times) ==
    IF Len(times) = 0 THEN Str("Failed", [err |-> "division by zero"])
    ELSE Str("Latency", [avg |-> Round0(Sum(times), Len(times)),
                         min |-> Min(times), max |-> Max(times)])

\* lines 219-233, with the answers outs[1..n] of the n requests of the loop
CheckLatency(url, samples, imported, outs) ==
    IF IsRaise(imported) THEN [ret |-> Raise(imported.err), calls |-> <<>>]
    ELSE LET n == RangeLen(samples)
             raising == {i \in 1 .. n : IsRaise(outs[i])}
             first == CHOOSE i \in raising : \A j \in raising : i <= j
             sent(k) == [i \in 1 .. k |-> HttpCall(url, "default", outs[i])]
         IN IF raising # {}
            THEN [ret |-> Str("Failed", [err |-> outs[first].err]), calls |-> sent(first)]
            ELSE [ret |-> LatencyStats([i \in 1 .. n |-> outs[i].elapsed]),
                  calls |-> sent(n)]

\* The answers of the HTTP server to one run of the loop: none when the import
\* fails, and none (written IdleGet) after the request that raises
IdleGet == [t |-> "ok", status_code |-> 200, elapsed |-> 10]
LoopAnswers ==
    [n \in 0 .. MaxSamples |->
        {outs \in [1 .. n -> SampleOutcomes] :
            \A i, j \in 1 .. n : (i < j /\ IsRaise(outs[i])) => outs[j] = IdleGet}]
SampleAnswers(samples, imported) ==
    IF IsRaise(imported) THEN {[i \in 1 .. RangeLen(samples) |-> IdleGet]}
    ELSE LoopAnswers[RangeLen(samples)]

check_latency ==
    /\ \E url \in Urls, samples \in SampleCounts, imported \in ImportOutcomes :
        \E outs \in SampleAnswers(samples, imported) :
            LET run == CheckLatency(url, samples, imported, outs)
            IN /\ ret' = run.ret
               /\ calls' = run.calls
               /\ lastOp' = "check_latency"
               /\ lastArgs' = <<url, samples>>
    /\ UNCHANGED shared
    /\ UNCHANGED thread

----------------------------------------------------------------------------
(* messaging *)

set_agent_context ==
    /\ \E client \in Clients, source \in Sources :
        /\ agent_client' = client
        /\ source_id' = source
        /\ lastArgs' = <<client, source>>
    /\ ret' = ReturnsNone
    /\ calls' = <<>>
    /\ lastOp' = "set_agent_context"
    /\ UNCHANGED <<registry, api_key, nextId, provisioned>>
    /\ UNCHANGED thread

send_message ==
    /\ \E text \in Texts :
        /\ ret' = Str("Message sent", [text |-> text])
        /\ lastArgs' = <<text>>
    /\ calls' = <<>>
    /\ lastOp' = "send_message"
    /\ UNCHANGED shared
    /\ UNCHANGED thread

----------------------------------------------------------------------------
(* deploy_app as a thread: lines 131, 134 and 135 read the registry one   *)
(* after the other, and another thread may run between them                *)

observed == <<lastOp, lastArgs, ret, calls>>

\* line 131
deploy_check ==
    /\ d_pc \in {"idle", "done"}
    /\ \E sandbox_name \in Names, repo_url \in Repos :
        /\ d_args' = <<sandbox_name, repo_url>>
        /\ IF Missing(registry, sandbox_name)
           THEN /\ d_ret' = DeployApp(registry, sandbox_name, repo_url, <<>>).ret
                /\ d_pc' = "done"
           ELSE /\ d_ret' = NoCall
                /\ d_pc' = "read_sandbox"
    /\ d_sandbox' = None
    /\ d_base_url' = None
    /\ d_calls' = <<>>
    /\ UNCHANGED shared
    /\ UNCHANGED observed

\* line 134: outside the try block, a missing key escapes as KeyError
deploy_read_sandbox ==
    /\ d_pc = "read_sandbox"
    /\ IF Has(registry, d_args[1])
       THEN /\ d_sandbox' = Get(registry, d_args[1]).sandbox
            /\ d_pc' = "read_base_url"
            /\ d_ret' = d_ret
       ELSE /\ d_sandbox' = d_sandbox
            /\ d_pc' = "done"
            /\ d_ret' = Raise("KeyError")
    /\ UNCHANGED <<d_args, d_base_url, d_calls>>
    /\ UNCHANGED shared
    /\ UNCHANGED observed

\* line 135
deploy_read_base_url ==
    /\ d_pc = "read_base_url"
    /\ IF Has(registry, d_args[1])
       THEN /\ d_base_url' = Get(registry, d_args[1]).base_url
            /\ d_pc' = "pipeline"
            /\ d_ret' = d_ret
       ELSE /\ d_base_url' = d_base_url
            /\ d_pc' = "done"
            /\ d_ret' = Raise("KeyError")
    /\ UNCHANGED <<d_args, d_sandbox, d_calls>>
    /\ UNCHANGED shared
    /\ UNCHANGED observed

\* lines 137-176
deploy_pipeline ==
    /\ d_pc = "pipeline"
    /\ \E outs \in PipelineAnswers :
        LET run == Pipeline(d_sandbox, d_base_url, d_args[2], outs)
        IN /\ d_ret' = run.ret
           /\ d_calls' = run.calls
    /\ d_pc' = "done"
    /\ UNCHANGED <<d_args, d_sandbox, d_base_url>>
    /\ UNCHANGED shared
    /\ UNCHANGED observed

----------------------------------------------------------------------------
Init ==
    /\ registry = <<>>
    /\ api_key \in Keys
    /\ agent_client = None
    /\ source_id = None
    /\ nextId = 0
    /\ provisioned = <<>>
    /\ lastOp = "none"
    /\ lastArgs = <<>>
    /\ ret = NoCall
    /\ calls = <<>>
    /\ d_pc = "idle"
    /\ d_args = <<>>
    /\ d_sandbox = None
    /\ d_base_url = None
    /\ d_ret = NoCall
    /\ d_calls = <<>>

Next ==
    \/ provision_sandbox
    \/ set_environ
    \/ list_sandboxes
    \/ run_command
    \/ deploy_app
    \/ verify_url
    \/ check_latency
    \/ set_agent_context
    \/ send_message

Spec == Init /\ [][Next]_vars

NextConc ==
    \/ provision_sandbox
    \/ set_environ
    \/ deploy_check
    \/ deploy_read_sandbox
    \/ deploy_read_base_url
    \/ deploy_pipeline

SpecConc == Init /\ [][NextConc]_vars
----------------------------------------------------------------------------
(* Properties *)

Count(seq, x) == Cardinality({i \in DOMAIN seq : seq[i] = x})
Distinct(seq) == \A i, j \in DOMAIN seq : seq[i] = seq[j] => i = j
EntriesOf(reg, name) == {i \in DOMAIN reg : reg[i].name = name}
FailureMessage(r) == r.kind = "str" /\ ~Provisioned(r)
Answered(call) == ~IsRaise(call.out)

\* C1: a successful provision_sandbox(name) of a name that is already a key
\* (a second successful provision) leaves exactly one entry for name, holding
\* the handle, the identifier and the base URL of this call and no longer the
\* first call's handle; every entry under another name is what and where it was.
LastWriteWins ==
    [][(lastOp' = "provision_sandbox" /\ Provisioned(ret') /\ Has(registry, lastArgs'[1]))
        => LET name == lastArgs'[1]
           IN /\ Cardinality(EntriesOf(registry', name)) = 1
              /\ Get(registry', name).sandbox = calls'[1].out.sandbox
              /\ Get(registry', name).sandbox_id = ret'.data.sandbox_id
              /\ Get(registry', name).base_url = ret'.data.base_url
              /\ Get(registry', name).sandbox # Get(registry, name).sandbox
              /\ Len(registry') = Len(registry)
              /\ \A i \in DOMAIN registry :
                    registry[i].name # name => registry'[i] = registry[i]]_vars

\* C1 witness: a name was provisioned twice with success, next to another name.
LastWriteWinsWitness ==
    /\ lastOp = "provision_sandbox"
    /\ Provisioned(ret)
    /\ Count(provisioned, lastArgs[1]) >= 2
    /\ Len(registry) >= 2

\* C2: a provision_sandbox call that returns a failure message leaves the
\* registry as it was, and with the credential absent it requests no creation.
FailedProvisionKeepsRegistry ==
    [][(lastOp' = "provision_sandbox" /\ FailureMessage(ret'))
        => /\ registry' = registry
           /\ (api_key = "" => calls' = <<>>)
           /\ (calls' = <<>> <=> ret'.msg = "E2B_API_KEY not set")]_vars

\* C2 witness: the remote creation raised for a name that is already registered.
FailedProvisionWitness ==
    /\ lastOp = "provision_sandbox"
    /\ ret.kind = "str"
    /\ ret.msg = "Failed to provision sandbox"
    /\ Len(calls) = 1
    /\ Has(registry, lastArgs[1])

\* C3: no exception escapes a public operation.
NoExceptionEscapes == ret.kind # "raise"

PipelineOrder(repo_url) == <<CloneCmd(repo_url), InstallCmd, BuildCmd, ServeCmd, ProbeCmd>>
StepName == <<"Clone failed", "Install failed", "Build failed">>

\* C4: deploy_app issues its commands in the order clone, install, build,
\* launch, probe, all to the registered handle, and when clone, install or build
\* answers a non-zero exit code that command is the last one issued and the
\* call returns that step's failure message with its standard error.
DeployShortCircuits ==
    lastOp = "deploy_app" =>
        /\ Len(calls) <= 5
        /\ \A i \in DOMAIN calls :
              /\ calls[i].command = PipelineOrder(lastArgs[2])[i]
              /\ calls[i].sandbox = Get(registry, lastArgs[1]).sandbox
        /\ \A k \in 1 .. 3 :
              (k <= Len(calls) /\ Answered(calls[k]) /\ calls[k].out.exit_code # 0)
                  => /\ Len(calls) = k
                     /\ ret = Str(StepName[k], [stderr |-> calls[k].out.stderr])

\* C4 witness: the install step failed after a successful clone.
DeployShortCircuitsWitness ==
    /\ lastOp = "deploy_app"
    /\ Len(calls) = 2
    /\ Answered(calls[2])
    /\ calls[2].out.exit_code # 0

\* C5: for a known sandbox and no exception, deploy_app returns the success
\* message exactly when all five commands were issued and clone, install, build
\* and the probe answered exit code 0, whatever the launch answered; otherwise
\* the first of clone, install, build to fail is the step the message names.
DeploySuccessIff ==
    (/\ lastOp = "deploy_app"
     /\ Has(registry, lastArgs[1])
     /\ \A i \in DOMAIN calls : Answered(calls[i]))
        => /\ ret.kind = "str"
           /\ ret.msg = "Deployment Complete"
                <=> /\ Len(calls) = 5
                    /\ \A i \in {1, 2, 3, 5} : calls[i].out.exit_code = 0
           /\ \A k \in 1 .. 3 :
                 (/\ k <= Len(calls)
                  /\ calls[k].out.exit_code # 0
                  /\ \A j \in 1 .. k - 1 : calls[j].out.exit_code = 0)
                     => ret.msg = StepName[k]
           /\ (Len(calls) = 5 /\ calls[5].out.exit_code # 0)
                 => ret.msg = "Server failed to start"

\* C5 witness: success although the launch command itself answered non-zero.
DeploySuccessWitness ==
    /\ lastOp = "deploy_app"
    /\ ret.msg = "Deployment Complete"
    /\ Len(calls) = 5
    /\ calls[4].out.exit_code # 0

\* C6: run_command and deploy_app on a name that is no key of the registry
\* return their not-found message and issue no command.
UnknownSandboxNoCall ==
    (lastOp \in {"run_command", "deploy_app"} /\ lastArgs[1] \notin KeysOf(registry))
        => /\ calls = <<>>
           /\ ret = Str(IF lastOp = "run_command" THEN "Sandbox not found"
                        ELSE "Sandbox not found. Provision one first",
                        [name |-> lastArgs[1]])

\* C6 witness: an unknown name while another sandbox is registered.
UnknownSandboxWitness ==
    /\ lastOp = "run_command"
    /\ registry # <<>>
    /\ lastArgs[1] \notin KeysOf(registry)

\* C7: check_latency with a non-positive sample count that returns a string
\* returns it without having divided by zero, and sends no request.
NonPositiveSamplesValidated ==
    (lastOp = "check_latency" /\ lastArgs[2] <= 0 /\ ret.kind = "str")
        => /\ calls = <<>>
           /\ ret.msg # "Latency"
           /\ ret.data.err # "division by zero"

\* C8: list_sandboxes leaves the registry as it is; on an empty registry it
\* returns the no-sandboxes message; after successful provisions of pairwise
\* distinct names it enumerates exactly those names, in the order provisioned.
ListInProvisionOrder ==
    [][lastOp' = "list_sandboxes"
        => /\ registry' = registry
           /\ registry = <<>> => ret' = Str("No active sandboxes", <<>>)
           /\ (provisioned # <<>> /\ Distinct(provisioned))
                 => /\ ret'.msg = "Active Sandboxes"
                    /\ [i \in DOMAIN ret'.data |-> ret'.data[i].name] = provisioned]_vars

\* C8 witness: two names listed, provisioned in the order b, a.
ListInProvisionOrderWitness ==
    /\ lastOp = "list_sandboxes"
    /\ provisioned = <<"b", "a">>
    /\ Len(ret.data) = 2

\* C9: no step removes a key of the registry, and every operation other than
\* provision_sandbox leaves the registry as it is.
RegistryOnlyGrows ==
    [][/\ KeysOf(registry) \subseteq KeysOf(registry')
       /\ lastOp' # "provision_sandbox" => registry' = registry]_vars

\* C9 witness: a deployment ended in a caught exception on a registered sandbox.
RegistryOnlyGrowsWitness ==
    /\ lastOp = "deploy_app"
    /\ ret.msg = "Deployment failed"
    /\ Len(registry) = 2

\* C10: a finished deploy_app thread did not fail on a missing key, and the
\* base URL of its success message is the one of the record whose handle ran
\* the pipeline (a record holds base_url = BaseUrl(sandbox.sandbox_id)).
DeployReportsOwnUrl ==
    d_pc = "done" =>
        /\ d_ret.kind # "raise"
        /\ d_ret.msg = "Deployment Complete"
              => d_ret.data.base_url = BaseUrl(d_calls[1].sandbox.sandbox_id)
====
